---- MODULE Spec2Model ----
(***************************************************************************)
(* Model of pysdtoken (src/pysdtoken/pysdtoken.py): the Token and          *)
(* SDProcess classes wrapping the RSA stauto32 soft-token library through  *)
(* ctypes.  The native library is opaque: every native call's outcome      *)
(* (return code, raised error, values written through pointers) is an      *)
(* input chosen from a small set.  Every method is modelled as an operator *)
(* from the object's attributes and the native outcomes to the new         *)
(* attributes, the native calls issued (in order), the exception raised    *)
(* ("" when none) and the value returned.                                  *)
(***************************************************************************)
EXTENDS Integers, Sequences, FiniteSets, TLC

VARIABLES
    library,  \* the token service: how many tokens are registered, which is the default
    phase,    \* "new" | "alive" | "failed" (constructor raised) | "deleted"
    sd,       \* the SDProcess object's attributes
    utoken,   \* a Token the application built itself: Token(serial, {})
    calls,    \* the native calls issued by the pending operation, in order
    result    \* the pending operation: name, arguments, exception raised, value returned

vars == <<library, phase, sd, utoken, calls, result>>

(***************************************************************************)
(* Bounds                                                                  *)
(***************************************************************************)
\* largest token count the native EnumToken reports
MaxTokens == 2

(***************************************************************************)
(* Program constants                                                       *)
(***************************************************************************)
valid_pin_styles == <<"PINless", "PINPad-style", "Fob-style">>

ValidPinStyleSet == {valid_pin_styles[i] : i \in 1..Len(valid_pin_styles)}

\* the values of the TokenError enum: -1, 1..49, 216, 217
TokenErrorValues == {-1} \cup (1..49) \cup {216, 217}

(***************************************************************************)
(* Inputs                                                                  *)
(***************************************************************************)
\* pin_style arguments of the constructor
InitPinStyleArgs == {"PINPad-style", "Fob-style", "Bogus-style"}
\* pinstyle arguments of Token.set_pin_style
PinStyleArgs == {"PINless", "Fob-style", "Bogus-style"}
PinLengthArgs == {0, 5, 8}
TokencodeLengthArgs == {6, 9}
DllNameArgs == {"", "C:/RSA/stauto32.dll"}
\* platform.system(); the module imports ctypes.windll, which only Windows has
Platforms == {"Windows"}
\* return codes of the native functions: >0 success, <=0 failure
RetCodes == {-1, 0, 1}
\* error numbers GetTokenError may report: none, one TokenError names, one it does not
ErrNumbers == {0, 13, 50}
\* handle values OpenTokenService writes
HandleVals == {7}
\* (year, month, day) the native library writes into the CK_DATE
Dates == {<<2030, 12, 31>>, <<2030, 2, 30>>, <<0, 0, 0>>}

\* token counts and default-token indexes EnumToken writes
TokenCounts == 0..MaxTokens
\* -1 and n are outside the array of n tokens
DefaultIndexes(n) == -1..n
\* serial number of a Token the application builds itself
UserSerial == 9

\* outcome of one native call: it raises, or it returns code ret
NativeOutcomes ==
    {[raises |-> TRUE, ret |-> 0]} \cup [raises : {FALSE}, ret : RetCodes]
\* outcome of GetTokenError: also the error number written to the struct
ErrorOutcomes ==
    {[raises |-> TRUE, ret |-> 0, error |-> 0], [raises |-> FALSE, ret |-> 0, error |-> 0]}
        \cup [raises : {FALSE}, ret : {1}, error : ErrNumbers]
\* outcome of GetTokenExpirationDate: also the date written
DateOutcomes ==
    {[raises |-> TRUE, ret |-> 0, date |-> <<0, 0, 0>>]}
        \cup [raises : {FALSE}, ret : RetCodes, date : Dates]
\* an outcome standing for a call that is never made
Unused == [raises |-> FALSE, ret |-> 1, error |-> 0]

(***************************************************************************)
(* ctypes argument conversion: what an argtypes entry accepts              *)
(***************************************************************************)
\* the ctypes type a wintypes name stands for on the platform
CType(name, platform) ==
    CASE name = "LONG" -> "c_long"
      [] name = "DWORD" -> IF platform = "Windows" THEN "c_ulong" ELSE "c_long"
      [] name = "LPLONG" -> "POINTER(c_long)"
      [] name = "LPDWORD" -> IF platform = "Windows" THEN "POINTER(c_ulong)"
                                                      ELSE "POINTER(c_long)"
      [] name = "LPVOID" -> "c_void_p"
      [] name = "LPSTR" -> "c_char_p"
      [] name = "LPCSTR" -> IF platform = "Windows" THEN "c_char_p"
                                                     ELSE "POINTER(c_char_p)"
      [] OTHER -> name

\* from_param of the ctypes type t applied to a Python value of kind k
Conforms(t, k) ==
    CASE t = "c_long" -> k \in {"int", "c_long"}
      [] t = "POINTER(c_long)" -> k \in {"None", "c_long", "byref(c_long)"}
      [] t = "POINTER(c_ulong)" -> k \in {"None", "c_ulong", "byref(c_ulong)"}
      [] t = "POINTER(c_char_p)" -> k \in {"None", "c_char_p", "byref(c_char_p)"}
      [] t = "c_char_p" -> k \in {"None", "bytes", "c_char_p", "c_char_Array"}
      [] t = "c_void_p" -> k \in {"None", "int", "bytes", "c_char_p", "c_char_Array",
                                  "byref(c_long)", "byref(c_ulong)",
                                  "byref(token_basic_info_Array)"}
      [] OTHER -> FALSE

\* a foreign function accepts the call when every argument converts
ArgsAccepted(argtypes, kinds, platform) ==
    /\ Len(argtypes) = Len(kinds)
    /\ \A i \in 1..Len(argtypes) : Conforms(CType(argtypes[i], platform), kinds[i])

(***************************************************************************)
(* The object                                                              *)
(***************************************************************************)
\* self.lTokenServiceHandle is a LONG -- <<v>> -- or None -- <<>>
HandleKind(h) == IF h = <<>> THEN "None" ELSE "c_long"

Has(self, a) == a \in self.attrs

\* an object on which no attribute has been set yet
EmptyObject ==
    [attrs |-> {}, platform |-> "Windows", dll_name |-> "", pin_style |-> "",
     pin_length |-> 0, tokencode_length |-> 0, tokens |-> <<>>, lTokens |-> 0,
     lTokenServiceHandle |-> <<0>>, lDefaultToken |-> 0]

\* one native call in the log; arg holds what the claims need of its arguments
\* (the serial number, the lengths of the buffers, which buffer)
Call(fn, h, a, o) ==
    [fn |-> fn, handle |-> h, arg |-> a,
     status |-> IF o.raises THEN "raised" ELSE "returned",
     ret |-> IF o.raises THEN 0 ELSE o.ret]

\* a call ctypes rejected before it reached the library
Rejected(fn, h, a) ==
    [fn |-> fn, handle |-> h, arg |-> a, status |-> "rejected", ret |-> 0]

\* what a method hands back
Out(self, cs, exc, ret) == [self |-> self, calls |-> cs, exc |-> exc, ret |-> ret]

NoneVal == <<"None">>

(***************************************************************************)
(* SDProcess.get_token_error                                               *)
(***************************************************************************)
\* TokenError(err_number): the enum has no member of that value
TokenErrorLookupFails(err_number) == err_number \notin TokenErrorValues

\* the exception the GetTokenError call and the log line after it raise
TokenErrorExc(e) ==
    IF e.raises THEN "OSError"
    ELSE IF e.ret > 0 /\ e.error # 0 /\ TokenErrorLookupFails(e.error)
    THEN "ValueError"
    ELSE ""

get_token_error(self, e) ==
    IF ~Has(self, "process") \/ ~Has(self, "lTokenServiceHandle")
    THEN Out(self, <<>>, "AttributeError", NoneVal)
    ELSE Out(self, <<Call("GetTokenError", self.lTokenServiceHandle, <<>>, e)>>,
             TokenErrorExc(e), NoneVal)

(***************************************************************************)
(* Token                                                                   *)
(***************************************************************************)
\* Token.__init__: token_data is a dict, here a record with some of the keys;
\* process is TRUE for the SDProcess object and FALSE for None
Token_init(serial, token_data) ==
    [serial_number |-> serial,
     process |-> IF "token_service" \in DOMAIN token_data
                 THEN token_data.token_service ELSE FALSE,
     is_default |-> IF "is_default" \in DOMAIN token_data
                    THEN token_data.is_default ELSE FALSE,
     pin_style |-> IF "pin_style" \in DOMAIN token_data
                   THEN token_data.pin_style ELSE valid_pin_styles[1]]

\* Token.set_sd_process
set_sd_process(tok, token_service) == [tok EXCEPT !.process = token_service]

\* set_pin_style without the membership test
set_pin_style_unchecked(tok, pinstyle) ==
    [tok |-> [tok EXCEPT !.pin_style = pinstyle], exc |-> ""]

\* Token.set_pin_style: the token afterwards and the exception raised
set_pin_style(tok, pinstyle) ==
    IF pinstyle \notin ValidPinStyleSet
    THEN [tok |-> tok, exc |-> "ValueError"]
    ELSE [tok |-> [tok EXCEPT !.pin_style = pinstyle], exc |-> ""]

(***************************************************************************)
(* SDProcess.open_service                                                  *)
(***************************************************************************)
\* open_service calling OpenTokenService a second time when the first call fails
open_service_retry(self, o, h) ==
    IF ~Has(self, "process")
    THEN Out(self, <<>>, "AttributeError", NoneVal)
    ELSE LET c == Call("OpenTokenService", self.lTokenServiceHandle, <<>>, o) IN
         IF ~o.raises /\ o.ret > 0
         THEN Out([self EXCEPT !.lTokenServiceHandle = <<h>>], <<c>>, "", NoneVal)
         ELSE Out(self, <<c, c>>, "", NoneVal)

open_service(self, o, h) ==
    IF ~Has(self, "process")
    THEN Out(self, <<>>, "AttributeError", NoneVal)
    ELSE IF ~Has(self, "lTokenServiceHandle")
    THEN Out(self, <<>>, "", NoneVal)
    ELSE IF ~ArgsAccepted(<<"POINTER(c_long)">>,
                          <<HandleKind(self.lTokenServiceHandle)>>, self.platform)
    THEN Out(self, <<Rejected("OpenTokenService", self.lTokenServiceHandle, <<>>)>>,
             "", NoneVal)
    ELSE LET c == Call("OpenTokenService", self.lTokenServiceHandle, <<>>, o)
             written == IF ~o.raises /\ o.ret > 0 /\ self.lTokenServiceHandle # <<>>
                        THEN <<h>> ELSE self.lTokenServiceHandle
         IN Out([self EXCEPT !.lTokenServiceHandle = written], <<c>>, "", NoneVal)

(***************************************************************************)
(* SDProcess.close_service                                                 *)
(***************************************************************************)
close_service(self, o, e) ==
    IF ~Has(self, "process")
    THEN Out(self, <<>>, "AttributeError", NoneVal)
    ELSE IF ~Has(self, "lTokenServiceHandle")
    THEN Out(self, <<>>, "", NoneVal)
    ELSE IF ~ArgsAccepted(<<"LONG">>,
                          <<HandleKind(self.lTokenServiceHandle)>>, self.platform)
    THEN Out(self, <<Rejected("CloseTokenService", self.lTokenServiceHandle, <<>>)>>,
             "", NoneVal)
    ELSE LET c == Call("CloseTokenService", self.lTokenServiceHandle, <<>>, o) IN
         IF o.raises THEN Out(self, <<c>>, "", NoneVal)
         ELSE IF o.ret > 0
         THEN Out([self EXCEPT !.lTokenServiceHandle = <<>>], <<c>>, "", NoneVal)
         ELSE Out(self, <<c>> \o get_token_error(self, e).calls, "", NoneVal)

(***************************************************************************)
(* SDProcess.enum_tokens                                                   *)
(***************************************************************************)
enum_tokens(self, lib, n, e) ==
    IF ~Has(self, "process") \/ ~Has(self, "lTokens")
    THEN Out(self, <<>>, "AttributeError", NoneVal)
    ELSE LET h == self.lTokenServiceHandle
             accepted == ArgsAccepted(
                 <<"LONG", "LPLONG", "LPLONG", "LPVOID", "LPDWORD">>,
                 <<HandleKind(h), "c_long", "c_long", "int",
                   CType("DWORD", self.platform)>>, self.platform)
             cs == IF accepted THEN <<Call("EnumToken", h, <<"NULL">>, n)>>
                               ELSE <<Rejected("EnumToken", h, <<"NULL">>)>>
             self1 == IF accepted /\ ~n.raises
                      THEN [self EXCEPT !.lTokens = lib.tokens,
                                        !.lDefaultToken = lib.default]
                      ELSE self
         IN IF self1.lTokens <= 0
            THEN LET g == get_token_error(self1, e) IN
                 Out(self1, cs \o g.calls, g.exc,
                     IF g.exc = "" THEN <<"DWORD", 0>> ELSE NoneVal)
            ELSE Out(self1, cs, "", NoneVal)

(***************************************************************************)
(* SDProcess.get_tokens                                                    *)
(***************************************************************************)
\* the serial number held by slot x (from 0) of the native TOKENBASICINFO array
NativeSerial(x) == x + 1

\* the parse loop stopping one slot short of the array
ParseTokens_short(self, n0) ==
    [i \in 1..(n0 - 1) |->
        Token_init(NativeSerial(i - 1),
                   [token_service |-> TRUE,
                    is_default |-> (self.lDefaultToken = i - 1)])]

\* the parse loop: one Token per slot of the array of length n0
ParseTokens(self, n0) ==
    [i \in 1..n0 |->
        Token_init(NativeSerial(i - 1),
                   [token_service |-> TRUE,
                    is_default |-> (self.lDefaultToken = i - 1)])]

ByRef(t) == IF t = "c_ulong" THEN "byref(c_ulong)" ELSE "byref(c_long)"

get_tokens(self, lib, n, e1, e2) ==
    IF ~Has(self, "lTokens")
    THEN Out(self, <<>>, "AttributeError", NoneVal)
    ELSE IF self.lTokens = 0
    THEN Out(self, <<>>, "", <<"list", <<>>>>)
    ELSE IF self.lTokens < 0
    THEN Out(self, <<>>, "ValueError", NoneVal)
    ELSE IF ~Has(self, "process")
    THEN Out(self, <<>>, "AttributeError", NoneVal)
    ELSE LET h == self.lTokenServiceHandle
             n0 == self.lTokens
             accepted == ArgsAccepted(
                 <<"LONG", "LPLONG", "LPLONG", "LPVOID", "LPDWORD">>,
                 <<HandleKind(h), "byref(c_long)", "byref(c_long)",
                   "byref(token_basic_info_Array)",
                   ByRef(CType("DWORD", self.platform))>>, self.platform)
             cs == IF accepted THEN <<Call("EnumToken", h, <<"buffer">>, n)>>
                               ELSE <<Rejected("EnumToken", h, <<"buffer">>)>>
             self1 == IF accepted /\ ~n.raises
                      THEN [self EXCEPT !.lTokens = lib.tokens,
                                        !.lDefaultToken = lib.default]
                      ELSE self
             parsed == <<"list", ParseTokens(self1, n0)>>
             \* the except clause: get_token_error, then return []
             handler(before) ==
                 LET g == get_token_error(self1, e2) IN
                 Out(self1, before \o g.calls, g.exc,
                     IF g.exc = "" THEN <<"list", <<>>>> ELSE NoneVal)
         IN IF ~accepted \/ n.raises THEN handler(cs)
            ELSE IF n.ret > 0 THEN Out(self1, cs, "", parsed)
            ELSE LET g == get_token_error(self1, e1) IN
                 IF g.exc # "" THEN handler(cs \o g.calls)
                 ELSE Out(self1, cs \o g.calls, "", parsed)

(***************************************************************************)
(* SDProcess.get_default_token                                             *)
(***************************************************************************)
\* Python's list[i]: negative indexes count from the end
ListIndex(list, i) ==
    IF 0 <= i /\ i < Len(list) THEN <<list[i + 1]>>
    ELSE IF i < 0 /\ -i <= Len(list) THEN <<list[Len(list) + i + 1]>>
    ELSE <<>>

get_default_token(self) ==
    IF ~Has(self, "lTokens")
    THEN Out(self, <<>>, "AttributeError", NoneVal)
    ELSE IF self.lTokens # 0
    THEN LET t == ListIndex(self.tokens, self.lDefaultToken) IN
         IF t = <<>> THEN Out(self, <<>>, "IndexError", NoneVal)
         ELSE Out(self, <<>>, "", <<"token", t[1]>>)
    ELSE Out(self, <<>>, "", NoneVal)

(***************************************************************************)
(* SDProcess.get_token_current_code                                        *)
(***************************************************************************)
CurrentPasscodeLength(self, pin_style) ==
    IF self.pin_style = "Fob-style"
    THEN self.pin_length + self.tokencode_length
    ELSE self.pin_length + self.tokencode_length

get_token_current_code(self, serial, pin_style, o, e) ==
    IF ~Has(self, "pin_length") \/ ~Has(self, "process")
    THEN Out(self, <<>>, "AttributeError", NoneVal)
    ELSE LET h == self.lTokenServiceHandle
             a == <<serial, CurrentPasscodeLength(self, pin_style),
                    self.tokencode_length>>
             accepted == ArgsAccepted(
                 <<"LONG", "LPCSTR", "LPCSTR", "LPLONG", "LPSTR", "LPSTR">>,
                 <<HandleKind(h), "bytes", "c_char_p", "byref(c_long)",
                   "c_char_Array", "c_char_Array">>, self.platform)
             cs == IF accepted THEN <<Call("GetCurrentCode", h, a, o)>>
                               ELSE <<Rejected("GetCurrentCode", h, a)>>
         IN IF ~accepted \/ o.raises
            THEN LET g == get_token_error(self, e) IN
                 Out(self, cs \o g.calls, g.exc,
                     IF g.exc = "" THEN <<"tuple">> ELSE NoneVal)
            ELSE Out(self, cs, "", <<"tuple">>)

(***************************************************************************)
(* SDProcess.get_token_next_code                                           *)
(***************************************************************************)
NextPasscodeLength(self) ==
    IF self.pin_style = "Fob-style"
    THEN self.pin_length + self.tokencode_length
    ELSE self.tokencode_length

get_token_next_code(self, serial, o, e) ==
    IF ~Has(self, "pin_length") \/ ~Has(self, "process")
    THEN Out(self, <<>>, "AttributeError", NoneVal)
    ELSE LET h == self.lTokenServiceHandle
             a == <<serial, NextPasscodeLength(self), self.tokencode_length>>
             accepted == ArgsAccepted(
                 <<"LONG", "LPLONG", "LPLONG", "LPVOID", "LPDWORD", "LPDWORD">>,
                 <<HandleKind(h), "bytes", "c_char_p", "byref(c_long)",
                   "c_char_Array", "c_char_Array">>, self.platform)
             cs == IF accepted THEN <<Call("GetNextCode", h, a, o)>>
                               ELSE <<Rejected("GetNextCode", h, a)>>
         IN IF ~accepted \/ o.raises
            THEN LET g == get_token_error(self, e) IN
                 Out(self, cs \o g.calls, g.exc,
                     IF g.exc = "" THEN <<"tuple">> ELSE NoneVal)
            ELSE Out(self, cs, "", <<"tuple">>)

(***************************************************************************)
(* SDProcess.get_token_expiration_date                                     *)
(***************************************************************************)
IsLeap(y) == y % 4 = 0 /\ (y % 100 # 0 \/ y % 400 = 0)

DaysInMonth(y, m) ==
    IF m = 2 THEN (IF IsLeap(y) THEN 29 ELSE 28)
    ELSE IF m \in {4, 6, 9, 11} THEN 30 ELSE 31

\* datetime.date(y, m, d) accepts the fields
IsValidDate(d) ==
    /\ 1 <= d[1] /\ d[1] <= 9999
    /\ 1 <= d[2] /\ d[2] <= 12
    /\ 1 <= d[3] /\ d[3] <= DaysInMonth(d[1], d[2])

get_token_expiration_date(self, serial, o, e1, e2) ==
    LET \* the except clause: get_token_error, printable_date = None
        handler(before) ==
            LET g == get_token_error(self, e2) IN
            Out(self, before \o g.calls, g.exc, NoneVal)
    IN IF ~Has(self, "process") \/ ~Has(self, "lTokenServiceHandle")
       THEN handler(<<>>)
       ELSE LET c == Call("GetTokenExpirationDate", self.lTokenServiceHandle,
                          <<serial>>, o)
            IN IF o.raises THEN handler(<<c>>)
               ELSE IF o.ret > 0
               THEN IF IsValidDate(o.date)
                    THEN Out(self, <<c>>, "", <<"date", o.date>>)
                    ELSE handler(<<c>>)
               ELSE LET g == get_token_error(self, e1) IN
                    IF g.exc # "" THEN handler(<<c>> \o g.calls)
                    ELSE Out(self, <<c>> \o g.calls, "", NoneVal)

(***************************************************************************)
(* Token.get_expiration_date, get_current_code, get_next_code              *)
(***************************************************************************)
get_expiration_date(tok, self, o, e1, e2) ==
    IF ~tok.process THEN Out(self, <<>>, "ReferenceError", NoneVal)
    ELSE get_token_expiration_date(self, tok.serial_number, o, e1, e2)

\* get_current_code without the test of self.process
get_current_code_unguarded(tok, self, o, e) ==
    get_token_current_code(self, tok.serial_number, tok.pin_style, o, e)

get_current_code(tok, self, o, e) ==
    IF ~tok.process THEN Out(self, <<>>, "ReferenceError", NoneVal)
    ELSE get_token_current_code(self, tok.serial_number, tok.pin_style, o, e)

get_next_code(tok, self, o, e) ==
    IF ~tok.process THEN Out(self, <<>>, "ReferenceError", NoneVal)
    ELSE get_token_next_code(self, tok.serial_number, o, e)

(***************************************************************************)
(* SDProcess.__init__                                                      *)
(***************************************************************************)
\* the default location (which of the candidate paths exists is not modelled)
DefaultDllPath == "stauto32.dll"

\* pin_style stored without the sanity check
InitPinStyle_unchecked(pin_style) == pin_style

\* the sanity check of pin_style
InitPinStyle(pin_style) ==
    IF pin_style \notin ValidPinStyleSet THEN valid_pin_styles[1] ELSE pin_style

\* Locating and loading the library.  returned: __init__ returns at once.
LoadLibrary(self, a, env) ==
    IF a.dll_name # ""
    THEN [self |-> [self EXCEPT !.attrs = @ \cup {"dll_name"}, !.dll_name = a.dll_name],
          calls |-> <<>>, returned |-> FALSE]
    ELSE IF a.platform = "Windows"
    THEN LET name == DefaultDllPath
             s1 == [self EXCEPT !.attrs = @ \cup {"dll_name"}, !.dll_name = name]
             c == Call("LoadLibrary", <<>>, <<name>>,
                       [raises |-> ~env.loadok, ret |-> 1])
         IN IF env.loadok
            THEN [self |-> [s1 EXCEPT !.attrs = @ \cup {"process"}],
                  calls |-> <<c>>, returned |-> FALSE]
            ELSE [self |-> s1, calls |-> <<c>>, returned |-> TRUE]
    ELSE \* self.dll_name is read before it was ever set: AttributeError, caught
         [self |-> self, calls |-> <<>>, returned |-> TRUE]

\* the validation without the case of PIN-less tokens
ValidPinLength_no_zero(pin_length) == pin_length \in 6..8

ValidPinLength(pin_length) == pin_length \in 6..8 \/ pin_length = 0

ValidTokencodeLength(tokencode_length) == tokencode_length \in 6..8

\* "Setting up SDProcess vars"
SetUpVars(self) ==
    [self EXCEPT !.attrs = @ \cup {"tokens", "lTokens", "lTokenServiceHandle",
                                   "lDefaultToken", "lTimeLeft", "dwBuffersize"},
                 !.tokens = <<>>, !.lTokens = 0, !.lTokenServiceHandle = <<0>>,
                 !.lDefaultToken = 0]

SDProcess_init(a, lib, env) ==
    LET s0 == [EmptyObject EXCEPT !.attrs = {"pin_style"}, !.platform = a.platform,
                                  !.pin_style = InitPinStyle(a.pin_style)]
        ld == LoadLibrary(s0, a, env)
    IN IF ld.returned THEN Out(ld.self, ld.calls, "", NoneVal)
       ELSE IF ~ValidPinLength(a.pin_length)
       THEN Out(ld.self, ld.calls, "ValueError", NoneVal)
       ELSE IF ~ValidTokencodeLength(a.tokencode_length)
       THEN Out([ld.self EXCEPT !.attrs = @ \cup {"pin_length"},
                                !.pin_length = a.pin_length],
                ld.calls, "ValueError", NoneVal)
       ELSE LET s1 == SetUpVars(
                     [ld.self EXCEPT !.attrs = @ \cup {"pin_length", "tokencode_length"},
                                     !.pin_length = a.pin_length,
                                     !.tokencode_length = a.tokencode_length])
                op == open_service(s1, env.open, env.h)
            IN IF op.exc # "" THEN Out(op.self, ld.calls \o op.calls, op.exc, NoneVal)
               ELSE LET en == enum_tokens(op.self, lib, env.enum1, env.e1)
                        c2 == ld.calls \o op.calls \o en.calls
                    IN IF en.exc # "" THEN Out(en.self, c2, en.exc, NoneVal)
                       ELSE LET gt == get_tokens(en.self, lib, env.enum2, env.e2, env.e3) IN
                            IF gt.exc # "" THEN Out(gt.self, c2 \o gt.calls, gt.exc, NoneVal)
                            ELSE Out([gt.self EXCEPT !.tokens = gt.ret[2]],
                                     c2 \o gt.calls, "", NoneVal)

(***************************************************************************)
(* SDProcess.__del__                                                       *)
(***************************************************************************)
\* the classes "except Exception" catches
ExceptionClasses ==
    {"AttributeError", "ValueError", "IndexError", "OSError", "ReferenceError",
     "ArgumentError"}

\* __del__ without the try
ExceptPass_missing(exc) == exc

\* try: ... except Exception: pass
ExceptPass(exc) == IF exc \in ExceptionClasses THEN "" ELSE exc

SDProcess_del(self, o, e) ==
    LET r == close_service(self, o, e) IN
    Out(r.self, r.calls, ExceptPass(r.exc), NoneVal)

(***************************************************************************)
(* The state machine                                                       *)
(***************************************************************************)
InitArgs ==
    [dll_name : DllNameArgs, platform : Platforms, pin_length : PinLengthArgs,
     tokencode_length : TokencodeLengthArgs, pin_style : InitPinStyleArgs]

NoArgs == [x \in {} |-> 0]

Result(op, a, r) == [op |-> op, args |-> a, exc |-> r.exc, ret |-> r.ret]

\* the set S when the call is made, a single placeholder when it is not
Lazy(needed, S) == IF needed THEN S ELSE {Unused}

\* what the token service may hold
Libraries ==
    {[tokens |-> n, default |-> d] : <<n, d>> \in
        {x \in TokenCounts \X (-1..MaxTokens) : x[2] \in DefaultIndexes(x[1])}}

Idle == [op |-> "", args |-> NoArgs, exc |-> "", ret |-> NoneVal]

Init ==
    /\ library \in Libraries
    /\ phase = "new"
    /\ sd = EmptyObject
    /\ utoken = Token_init(UserSerial, NoArgs)
    /\ calls = <<>>
    /\ result = Idle

\* p = SDProcess(dll_name, pin_length=..., tokencode_length=..., pin_style=...)
Construct ==
    /\ phase = "new" /\ result = Idle
    /\ \E a \in InitArgs :
       LET loads == a.dll_name = "" /\ a.platform = "Windows" IN
       \E loadok \in IF loads THEN BOOLEAN ELSE {FALSE} :
       LET reaches == loadok /\ ValidPinLength(a.pin_length)
                             /\ ValidTokencodeLength(a.tokencode_length) IN
       \E o \in Lazy(reaches, NativeOutcomes), h \in HandleVals,
          n1 \in Lazy(reaches, NativeOutcomes), e1 \in Lazy(reaches, ErrorOutcomes),
          n2 \in Lazy(reaches, NativeOutcomes), e2 \in Lazy(reaches, ErrorOutcomes),
          e3 \in Lazy(reaches, ErrorOutcomes) :
       LET r == SDProcess_init(a, library,
                               [loadok |-> loadok, open |-> o, h |-> h, enum1 |-> n1,
                                e1 |-> e1, enum2 |-> n2, e2 |-> e2, e3 |-> e3])
       IN /\ phase' = IF r.exc = "" THEN "alive" ELSE "failed"
          /\ sd' = r.self
          /\ calls' = r.calls
          /\ result' = Result("__init__", a, r)
          /\ UNCHANGED <<library, utoken>>

\* the caller takes the outcome of the pending operation
Return ==
    /\ result # Idle
    /\ calls' = <<>>
    /\ result' = Idle
    /\ UNCHANGED <<library, phase, sd, utoken>>

\* an operation of the SDProcess object that leaves the tokens alone
Returns(op, a, r) ==
    /\ sd' = r.self
    /\ calls' = r.calls
    /\ result' = Result(op, a, r)
    /\ UNCHANGED <<library, phase, utoken>>

\* p.open_service()
OpenService ==
    /\ phase = "alive" /\ result = Idle
    /\ \E o \in NativeOutcomes, h \in HandleVals :
          Returns("open_service", NoArgs, open_service(sd, o, h))

\* p.close_service()
CloseService ==
    /\ phase = "alive" /\ result = Idle
    /\ \E o \in NativeOutcomes, e \in ErrorOutcomes :
          Returns("close_service", NoArgs, close_service(sd, o, e))

\* p.enum_tokens()
EnumTokens ==
    /\ phase = "alive" /\ result = Idle
    /\ \E n \in NativeOutcomes, e \in ErrorOutcomes :
          Returns("enum_tokens", NoArgs, enum_tokens(sd, library, n, e))

\* p.get_tokens()
GetTokens ==
    /\ phase = "alive" /\ result = Idle
    /\ \E n \in NativeOutcomes, e1 \in ErrorOutcomes, e2 \in ErrorOutcomes :
          Returns("get_tokens", NoArgs, get_tokens(sd, library, n, e1, e2))

\* p.get_default_token()
GetDefaultToken ==
    /\ phase = "alive" /\ result = Idle
    /\ Returns("get_default_token", NoArgs, get_default_token(sd))

\* p.get_token_error()
GetTokenError ==
    /\ phase = "alive" /\ result = Idle
    /\ \E e \in ErrorOutcomes :
          Returns("get_token_error", NoArgs, get_token_error(sd, e))

\* the tokens the application holds: 0 is the one it built, t > 0 is p.tokens[t - 1]
TokenIds == 0..Len(sd.tokens)

Tok(t) == IF t = 0 THEN utoken ELSE sd.tokens[t]

\* token.get_expiration_date()
TokenGetExpirationDate ==
    /\ phase = "alive" /\ result = Idle
    /\ \E t \in TokenIds, o \in DateOutcomes, e1 \in ErrorOutcomes, e2 \in ErrorOutcomes :
          Returns("get_expiration_date", [token |-> t],
                  get_expiration_date(Tok(t), sd, o, e1, e2))

\* token.get_current_code(pin)
TokenGetCurrentCode ==
    /\ phase = "alive" /\ result = Idle
    /\ \E t \in TokenIds, o \in NativeOutcomes, e \in ErrorOutcomes :
          Returns("get_current_code", [token |-> t],
                  get_current_code(Tok(t), sd, o, e))

\* token.get_next_code(pin)
TokenGetNextCode ==
    /\ phase = "alive" /\ result = Idle
    /\ \E t \in TokenIds, o \in NativeOutcomes, e \in ErrorOutcomes :
          Returns("get_next_code", [token |-> t],
                  get_next_code(Tok(t), sd, o, e))

\* token.set_sd_process(p)
TokenSetSdProcess ==
    /\ phase = "alive" /\ result = Idle
    /\ \E t \in TokenIds :
       LET tok == set_sd_process(Tok(t), TRUE) IN
       /\ utoken' = IF t = 0 THEN tok ELSE utoken
       /\ sd' = IF t = 0 THEN sd ELSE [sd EXCEPT !.tokens[t] = tok]
       /\ calls' = <<>>
       /\ result' = [op |-> "set_sd_process", args |-> [token |-> t],
                     exc |-> "", ret |-> NoneVal]
       /\ UNCHANGED <<library, phase>>

\* token.set_pin_style(s)
TokenSetPinStyle ==
    /\ phase = "alive" /\ result = Idle
    /\ \E t \in TokenIds, s \in PinStyleArgs :
       LET r == set_pin_style(Tok(t), s) IN
       /\ utoken' = IF t = 0 THEN r.tok ELSE utoken
       /\ sd' = IF t = 0 THEN sd ELSE [sd EXCEPT !.tokens[t] = r.tok]
       /\ calls' = <<>>
       /\ result' = [op |-> "set_pin_style", args |-> [token |-> t, pinstyle |-> s],
                     exc |-> r.exc, ret |-> NoneVal]
       /\ UNCHANGED <<library, phase>>

\* the object is destroyed: __del__ runs, also after a constructor that raised
Del ==
    /\ phase \in {"alive", "failed"} /\ result = Idle
    /\ \E o \in NativeOutcomes, e \in ErrorOutcomes :
       LET r == SDProcess_del(sd, o, e) IN
       /\ phase' = "deleted"
       /\ sd' = r.self
       /\ calls' = r.calls
       /\ result' = Result("__del__", [phase |-> phase], r)
       /\ UNCHANGED <<library, utoken>>

Next ==
    \/ Construct
    \/ Return
    \/ OpenService
    \/ CloseService
    \/ EnumTokens
    \/ GetTokens
    \/ GetDefaultToken
    \/ GetTokenError
    \/ TokenGetExpirationDate
    \/ TokenGetCurrentCode
    \/ TokenGetNextCode
    \/ TokenSetSdProcess
    \/ TokenSetPinStyle
    \/ Del

Spec == Init /\ [][Next]_vars

(***************************************************************************)
(* Properties                                                              *)
(***************************************************************************)
IsInit == result.op = "__init__"

\* positions of the calls of the pending operation
Positions == 1..Len(calls)

\* a native call came back with a non-positive code
Failed(c) == c.status = "returned" /\ c.ret <= 0

\* C1: whenever CloseTokenService, EnumToken with a buffer, GetCurrentCode,
\* GetNextCode or GetTokenExpirationDate returns a non-positive code, a
\* GetTokenError call on the same handle follows before the method returns.
C1_ErrorFetchedAfterFailure ==
    \A i \in Positions :
        ( /\ \/ calls[i].fn \in {"CloseTokenService", "GetCurrentCode", "GetNextCode",
                                 "GetTokenExpirationDate"}
             \/ calls[i].fn = "EnumToken" /\ calls[i].arg = <<"buffer">>
          /\ Failed(calls[i]) )
        => \E j \in Positions :
              j > i /\ calls[j].fn = "GetTokenError" /\ calls[j].handle = calls[i].handle

\* the constructor got as far as invoking open_service
OpenServiceInvoked == IsInit /\ Has(sd, "lTokenServiceHandle")

\* C2: in every construction, also one with an explicit dll_name, the library
\* is loaded and bound as the process before open_service is invoked, so that
\* OpenTokenService is called.
C2_LibraryLoadedBeforeOpen ==
    OpenServiceInvoked =>
        /\ Has(sd, "process")
        /\ \E i, j \in Positions :
              /\ i < j
              /\ calls[i].fn = "LoadLibrary" /\ calls[i].status = "returned"
              /\ calls[j].fn = "OpenTokenService"

\* the calls of the pending operation other than GetTokenError, as <<fn, arg>>
IsServiceCall(c) == c.fn # "GetTokenError"

ServiceCalls ==
    LET cs == SelectSeq(calls, IsServiceCall) IN
    [i \in 1..Len(cs) |-> <<cs[i].fn, cs[i].arg>>]

ReachesService == IsInit /\ \E i \in Positions : calls[i].fn = "OpenTokenService"

\* C3: a construction that reaches the service calls, in this order, the
\* library load, OpenTokenService once, EnumToken with a null buffer and at
\* most one EnumToken with a record buffer, and no code or expiration call.
C3_ConstructionCallOrder ==
    ReachesService =>
        LET prefix == << <<"LoadLibrary", <<DefaultDllPath>> >>,
                         <<"OpenTokenService", <<>> >>,
                         <<"EnumToken", <<"NULL">> >> >>
        IN \/ ServiceCalls = prefix
           \/ ServiceCalls = Append(prefix, <<"EnumToken", <<"buffer">> >>)

C3_Witness ==
    /\ ReachesService
    /\ result.exc = ""
    /\ Len(ServiceCalls) = 4
    /\ Len(sd.tokens) = MaxTokens

TokenQueries == {"get_expiration_date", "get_current_code", "get_next_code"}

\* the native function a token query ends in
NativeOf(op) ==
    CASE op = "get_expiration_date" -> "GetTokenExpirationDate"
      [] op = "get_current_code" -> "GetCurrentCode"
      [] op = "get_next_code" -> "GetNextCode"

\* C4: a Token without an SD process raises ReferenceError from the three
\* queries and issues no native call; once a process is set the queries
\* go to it with the token's serial number.
C4_TokenNeedsProcess ==
    result.op \in TokenQueries =>
        LET tok == Tok(result.args.token) IN
        IF ~tok.process
        THEN result.exc = "ReferenceError" /\ calls = <<>>
        ELSE /\ result.exc # "ReferenceError"
             /\ (Has(sd, "process") /\ Has(sd, "pin_length")) =>
                   /\ calls # <<>>
                   /\ calls[1].fn = NativeOf(result.op)
                   /\ calls[1].arg[1] = tok.serial_number

C4_Witness ==
    /\ result.op = "get_current_code"
    /\ result.args.token = 0
    /\ utoken.process
    /\ calls # <<>>
    /\ calls[1].fn = "GetCurrentCode"
    /\ calls[1].arg[1] = UserSerial

\* the constructor returned early because the library could not be loaded
LoadFailed ==
    IsInit /\ \E i \in Positions :
        calls[i].fn = "LoadLibrary" /\ calls[i].status = "raised"

LengthsChecked ==
    IF result.args.pin_length \in {0, 6, 7, 8}
       /\ result.args.tokencode_length \in {6, 7, 8}
    THEN /\ Has(sd, "pin_length") /\ sd.pin_length = result.args.pin_length
         /\ Has(sd, "tokencode_length")
         /\ sd.tokencode_length = result.args.tokencode_length
    ELSE result.exc = "ValueError"

\* C5 as stated: every construction with pin_length outside {0, 6, 7, 8} or
\* tokencode_length outside {6, 7, 8} raises ValueError, and every other
\* construction stores the two values unchanged.
C5_EveryConstructionValidates == IsInit => LengthsChecked

\* C5 as amended: the same of every construction whose library load did not
\* fail; one whose load failed returns before the validation, raising nothing
\* and storing neither value.
C5_ValidatesUnlessLoadFailed ==
    IsInit =>
        IF LoadFailed
        THEN /\ result.exc = ""
             /\ ~Has(sd, "pin_length") /\ ~Has(sd, "tokencode_length")
        ELSE LengthsChecked

C5_Witness ==
    /\ IsInit
    /\ ~LoadFailed
    /\ result.args.pin_length = 0
    /\ Has(sd, "pin_length") /\ sd.pin_length = 0
    /\ Has(sd, "tokencode_length")

\* the passcode length the pin style calls for
ExpectedPasscodeLength(self) ==
    IF self.pin_style = "Fob-style"
    THEN self.pin_length + self.tokencode_length
    ELSE self.tokencode_length

\* C6: get_token_current_code and get_token_next_code both size the passcode
\* buffer tokencode_length for PINless and PINPad-style and
\* pin_length + tokencode_length for Fob-style.
C6_PasscodeBufferLength ==
    result.op \in {"get_current_code", "get_next_code"} =>
        \A i \in Positions :
            ( /\ calls[i].fn \in {"GetCurrentCode", "GetNextCode"}
              /\ Tok(result.args.token).pin_style = sd.pin_style )
            => calls[i].arg[2] = ExpectedPasscodeLength(sd)

\* C7: get_token_expiration_date returns None and does not raise whenever
\* GetTokenExpirationDate fails, raises or yields no valid date, whatever error
\* the GetTokenError call that follows reports.
C7_ExpirationDateNeverRaises ==
    ( /\ result.op = "get_expiration_date"
      /\ calls # <<>>
      /\ calls[1].fn = "GetTokenExpirationDate"
      /\ \A i \in Positions :
            calls[i].fn = "GetTokenError" => calls[i].status = "returned" )
    => /\ result.exc = ""
       /\ (calls[1].status = "raised" \/ Failed(calls[1])) => result.ret = NoneVal
       /\ result.ret[1] \in {"None", "date"}

\* the tokens of a list that are marked default, by position from 0
DefaultsOf(list) == {x \in 0..(Len(list) - 1) : list[x + 1].is_default}

\* C8: in the list get_tokens builds only the token at index lDefaultToken is
\* the default (none when the index is outside the array), and
\* get_default_token returns that token when the count is non-zero and None
\* when it is zero.
C8_DefaultToken ==
    /\ (IsInit /\ result.exc = "" /\ Has(sd, "tokens")) =>
          DefaultsOf(sd.tokens) = {sd.lDefaultToken} \cap (0..(Len(sd.tokens) - 1))
    /\ (result.op = "get_default_token" /\ Has(sd, "tokens")
                                        /\ Len(sd.tokens) = sd.lTokens) =>
          IF sd.lTokens = 0
          THEN result.exc = "" /\ result.ret = NoneVal
          ELSE /\ result.exc = ""
               /\ result.ret[1] = "token"
               /\ result.ret[2].is_default
               /\ DefaultsOf(sd.tokens) = {sd.lDefaultToken}
               /\ result.ret[2] = sd.tokens[sd.lDefaultToken + 1]

\* C9: set_pin_style(s) raises ValueError and leaves pin_style alone when s
\* is not a valid style and sets pin_style to s otherwise, so every Token of
\* the list get_tokens built keeps a valid pin_style.
C9_PinStyleStaysValid ==
    [][ /\ (result'.op = "set_pin_style" /\ result.op = "") =>
              LET t == result'.args.token
                  s == result'.args.pinstyle
                  before == Tok(t).pin_style
                  after == IF t = 0 THEN utoken'.pin_style ELSE sd'.tokens[t].pin_style
              IN IF s \in ValidPinStyleSet
                 THEN result'.exc = "" /\ after = s
                 ELSE result'.exc = "ValueError" /\ after = before
        /\ \A i \in 1..Len(sd'.tokens) : sd'.tokens[i].pin_style \in ValidPinStyleSet
      ]_vars

C9_Witness ==
    /\ result.op = "set_pin_style"
    /\ result.args.token > 0
    /\ result.args.pinstyle \notin ValidPinStyleSet
    /\ result.exc = "ValueError"
    /\ \E i \in 1..Len(sd.tokens) : sd.tokens[i].pin_style = "Fob-style"

\* C10: __del__ attempts close_service and never lets an exception out,
\* whether the object is fully initialised, was built with a failed library
\* load, or is already closed.
C10_DelNeverRaises ==
    result.op = "__del__" =>
        /\ result.exc = ""
        /\ (Has(sd, "process") /\ Has(sd, "lTokenServiceHandle")) =>
              calls # <<>> /\ calls[1].fn = "CloseTokenService"

C10_Witness ==
    /\ result.op = "__del__"
    /\ result.args.phase = "alive"
    /\ ~Has(sd, "process")
    /\ calls = <<>>
    /\ result.exc = ""

\* the passcode length a pin style calls for on the object self
PasscodeLengthFor(pin_style, self) ==
    IF pin_style = "Fob-style"
    THEN self.pin_length + self.tokencode_length
    ELSE self.tokencode_length

\* C11: for Token.get_current_code the passcode buffer is sized by the calling
\* token's own pin_style, the one passed as the pin_style argument, not by
\* the pin_style the SDProcess object was constructed with.
C11_TokenPinStyleSizesBuffer ==
    result.op = "get_current_code" =>
        \A i \in Positions :
            calls[i].fn = "GetCurrentCode" =>
                calls[i].arg[2] =
                    PasscodeLengthFor(Tok(result.args.token).pin_style, sd)

\* C12: get_token_next_code passes GetNextCode arguments that conform to the
\* argument types it declared, so the call reaches the library and is not
\* rejected by ctypes.
C12_NextCodeReachesLibrary ==
    result.op = "get_next_code" =>
        \A i \in Positions :
            (calls[i].fn = "GetNextCode" /\ calls[i].handle # <<>>)
            => calls[i].status # "rejected"

\* the buffered EnumToken call of the pending operation returned a positive code
BufferedEnumSucceeded ==
    \E i \in Positions :
        /\ calls[i].fn = "EnumToken" /\ calls[i].arg = <<"buffer">>
        /\ calls[i].status = "returned" /\ calls[i].ret > 0

\* the tokens of a list are those of the native array, in its order
InArrayOrder(list) ==
    \A i \in 1..Len(list) : list[i].serial_number = NativeSerial(i - 1)

C14_GetTokenErrorNeverRaises ==
    ( /\ result.op = "get_token_error"
      /\ calls # <<>>
      /\ calls[1].fn = "GetTokenError"
      /\ calls[1].status = "returned" )
    => result.exc = ""

\* C15: after construction the stored pin_style is one of the three valid
\* styles: a valid argument is stored as given, an invalid one is replaced by
\* PINless, and the invalid argument alone raises nothing.
C15_StoredPinStyleValid ==
    /\ phase # "new" => Has(sd, "pin_style") /\ sd.pin_style \in ValidPinStyleSet
    /\ IsInit =>
          /\ sd.pin_style = IF result.args.pin_style \in ValidPinStyleSet
                            THEN result.args.pin_style ELSE "PINless"
          /\ ( /\ result.args.pin_style \notin ValidPinStyleSet
               /\ result.args.dll_name = ""
               /\ result.args.pin_length \in {0, 6, 7, 8}
               /\ result.args.tokencode_length \in {6, 7, 8}
               /\ \A i \in Positions : calls[i].fn # "GetTokenError" )
             => result.exc = ""

C15_Witness ==
    /\ IsInit
    /\ phase = "alive"
    /\ result.args.pin_style = "Bogus-style"
    /\ sd.pin_style = "PINless"
    /\ Has(sd, "process")
    /\ Len(sd.tokens) > 0

====
